---- MODULE Spec2Model ----
(***************************************************************************)
(* printpdf: the document handle (PdfDocumentReference), the font registry *)
(* (FontList), the Info dictionary (DocumentInfo) and the assembly done by *)
(* save, as a state machine over one document.                             *)
(***************************************************************************)
EXTENDS Integers, Sequences, FiniteSets, TLC

VARIABLES
    handle,       \* the caller's PdfDocumentReference: "held", "moved", "unwound"
    doc_alive,    \* the Rc<RefCell<PdfDocument>> still has a strong owner
    borrow_flag,  \* the RefCell's borrow flag
    pages,        \* PdfDocument.pages
    fonts,        \* PdfDocument.fonts (FontList.fonts), IndirectFontRef -> DirectFontRef
    inner_doc,    \* PdfDocument.inner_doc (lopdf::Document): max_id, objects, trailer
    document_id,  \* PdfDocument.document_id
    metadata,     \* PdfDocument.metadata
    rng,          \* the identifiers rand::thread_rng() has produced, in order
    issued,       \* page indices returned by new / add_page, with the page each denoted
    page_ref,     \* a PdfPageReference kept by the caller (Option: <<>> or <<index>>)
    first_reg,    \* per font name, the DirectFontRef stored by its first add_font
    result,       \* the last operation: name, argument, outcome, returned value
    target,       \* what save handed to save_to (Option)
    twin,         \* what saving a document in the same logical state yields (Option)
    face,         \* font embedding: the font face handed to into_obj_with_document
    embedded      \* font embedding: its output (Option)

doc_vars == <<pages, fonts, inner_doc, document_id, metadata>>
font_vars == <<face, embedded>>
vars == <<handle, doc_alive, borrow_flag, pages, fonts, inner_doc, document_id,
          metadata, rng, issued, page_ref, first_reg, result, target, twin, face,
          embedded>>

\* ---------------------------------------------------------------- bounds

MaxPages == 3        \* pages a document may grow to

None == <<>>
Some(x) == <<x>>

Min(a, b) == IF a < b THEN a ELSE b

\* all orders in which the elements of S can be enumerated
Orders(S) ==
    {s \in [1..Cardinality(S) -> S] : \A i, j \in DOMAIN s : i # j => s[i] # s[j]}

\* ---------------------------------------------------------------- inputs

Names == {"Helvetica", "Courier"}       \* PostScript names
Ids == {"id_a", "id_b"}                 \* 32-character random identifiers
Titles == {"title0", "title1"}
Conformances == {"X3_2002_PDF_1_3", "X1A_2001_PDF_1_3"}
Versions == {1, 2}
PageSizes == {<<210, 297>>}
Offsets == {0, 1}                       \* UTC offsets of a timestamp, in hours
Instants == {23}                        \* hours since the epoch

\* the bytes of a font stream: a font program with a PostScript name (two of
\* them share the name Helvetica), a font program without one, or bytes that
\* are no font program
FontBytes ==
    {[kind |-> "font", name |-> "Helvetica", variant |-> "regular"],
     [kind |-> "font", name |-> "Helvetica", variant |-> "patched"],
     [kind |-> "font", name |-> "Courier", variant |-> "regular"]}
    \cup {[kind |-> "noname", name |-> "", variant |-> ""],
          [kind |-> "garbage", name |-> "", variant |-> ""]}

Streams ==
    {[readable |-> TRUE, bytes |-> b] : b \in FontBytes}
    \cup {[readable |-> FALSE, bytes |-> [kind |-> "garbage", name |-> "", variant |-> ""]]}

\* a timestamp is an instant (hours since the epoch, UTC) and a UTC offset in
\* hours; its calendar fields are those of the local time instant + offset
TimeStamps == {[utc |-> i, offset |-> o] : i \in Instants, o \in Offsets}

Ret(op, arg, status, ret) == [op |-> op, arg |-> arg, status |-> status, ret |-> ret]

\* ---------------------------------------------------------------- RefCell

RECURSIVE RunBorrows(_, _)
\* std::cell::RefCell: the borrow flag is 0 when unused, n > 0 under n shared
\* borrows and -1 under an exclusive one.  borrow() panics under an exclusive
\* borrow, borrow_mut() panics under any borrow.
RunBorrows(script, flag) ==
    IF script = <<>> THEN [flag |-> flag, ok |-> TRUE]
    ELSE LET e == Head(script)
             rest == Tail(script)
         IN CASE e = "borrow" ->
                   IF flag >= 0 THEN RunBorrows(rest, flag + 1)
                   ELSE [flag |-> flag, ok |-> FALSE]
              [] e = "borrow_mut" ->
                   IF flag = 0 THEN RunBorrows(rest, 0 - 1)
                   ELSE [flag |-> flag, ok |-> FALSE]
              [] e = "drop_ref" -> RunBorrows(rest, flag - 1)
              [] e = "drop_mut" -> RunBorrows(rest, 0)

\* the borrows each operation takes and releases, in program order
new_borrows == <<"borrow_mut", "drop_mut">>
with_borrows == <<"borrow_mut", "drop_mut">>
add_page_borrows == <<"borrow_mut", "drop_mut">>
get_page_borrows == <<"borrow_mut", "drop_mut">>
get_font_borrows == <<"borrow", "drop_ref">>

\* faulty variant: the shared borrow of the lookup is still alive at borrow_mut()
add_font_borrows_held(found) ==
    IF found THEN <<"borrow", "drop_ref">>
    ELSE <<"borrow", "borrow_mut", "drop_mut", "drop_ref">>

\* add_font: the lookup's shared borrow ends with its block, before the
\* exclusive borrow of the insertion branch
add_font_borrows(found) ==
    IF found THEN <<"borrow", "drop_ref">>
    ELSE <<"borrow", "drop_ref", "borrow_mut", "drop_mut">>

\* ---------------------------------------------------------------- fonts

\* Font::new: read the stream to its end (an io error is returned with `?`),
\* parse the face (unwrap) and take its PostScript name (expect)
FontNew(stream) ==
    IF ~stream.readable THEN [status |-> "Err", font |-> None]
    ELSE IF stream.bytes.kind = "garbage" THEN [status |-> "Panic", font |-> None]
    ELSE IF stream.bytes.kind = "noname" THEN [status |-> "Panic", font |-> None]
    ELSE [status |-> "Ok",
          font |-> Some([font_bytes |-> stream.bytes, face_name |-> stream.bytes.name])]

\* IndirectFontRef, as add_font builds it from the face name
IndirectFontRefNew(face_name) == [name |-> face_name]

\* FontList::get_font: a clone of the stored DirectFontRef, or None
FontList_get_font(list, font_ref) ==
    IF font_ref \in DOMAIN list THEN Some(list[font_ref]) ELSE None

\* FontList::add_font: HashMap::insert (an existing entry is replaced)
FontList_add_font(list, font_ref, direct_ref) ==
    [r \in DOMAIN list \cup {font_ref} |-> IF r = font_ref THEN direct_ref ELSE list[r]]

\* lopdf::Document::new_object_id: the next identity, generation 0
new_object_id(d) == [doc |-> [d EXCEPT !.max_id = d.max_id + 1], id |-> d.max_id + 1]

\* lopdf::Document::add_object: a new identity, with the object stored under it
add_object(d, obj) ==
    LET n == new_object_id(d)
    IN [doc |-> [n.doc EXCEPT !.objects = (n.id :> obj) @@ n.doc.objects], id |-> n.id]

\* ---------------------------------------------------------------- pages

\* PdfPage::new(width, height, layer name, page number): a page with its
\* initial, empty layer
PdfPageNew(size, number) ==
    [number |-> number, width_pt |-> size[1], heigth_pt |-> size[2],
     layers |-> << <<>> >>, resources |-> <<>>]

\* faulty variant: the index returned is the length after the push
add_page_effect_len(ps, size) ==
    LET pushed == Append(ps, PdfPageNew(size, Len(ps)))
    IN [pages |-> pushed, index |-> Len(pushed)]

\* add_page: push the page, return PdfPageIndex(len - 1)
add_page_effect(ps, size) ==
    LET pushed == Append(ps, PdfPageNew(size, Len(ps)))
    IN [pages |-> pushed, index |-> Len(pushed) - 1]

\* Vec::get(i) on the page vector (0-based): Some(page) or None
pages_get(ps, i) == IF i >= 0 /\ i < Len(ps) THEN Some(ps[i + 1]) ELSE None

\* ---------------------------------------------------------------- add_font

\* faulty variant: no lookup, every call allocates and inserts
add_font_effect_always(list, d, font) ==
    LET font_ref == IndirectFontRefNew(font.face_name)
        n == new_object_id(d)
        direct_ref == [inner_obj |-> n.id, data |-> font]
    IN [fonts |-> FontList_add_font(list, font_ref, direct_ref),
        inner_doc |-> n.doc, found |-> FALSE, ret |-> font_ref]

\* add_font after a successful Font::new: look the name up; allocate an
\* identity and insert only when it is not registered yet
add_font_effect(list, d, font) ==
    LET font_ref == IndirectFontRefNew(font.face_name)
        possible_ref == FontList_get_font(list, font_ref)
    IN IF possible_ref # None
       THEN [fonts |-> list, inner_doc |-> d, found |-> TRUE, ret |-> font_ref]
       ELSE LET n == new_object_id(d)
                direct_ref == [inner_obj |-> n.id, data |-> font]
            IN [fonts |-> FontList_add_font(list, font_ref, direct_ref),
                inner_doc |-> n.doc, found |-> FALSE, ret |-> font_ref]

\* ---------------------------------------------------------------- metadata

\* PdfMetadata::new(title, 1, false, X3_2002_PDF_1_3), created at `now`
PdfMetadataNew(title, now) ==
    [document_title |-> title, trapping |-> FALSE, document_version |-> 1,
     conformance |-> "X3_2002_PDF_1_3",
     creation_date |-> [utc |-> now, offset |-> 0],
     modification_date |-> [utc |-> now, offset |-> 0],
     xmp_document_id |-> None, target_icc_profile |-> None]

with_trapping_effect(m, trapping) == [m EXCEPT !.trapping = trapping]
with_document_version_effect(m, version) == [m EXCEPT !.document_version = version]
with_conformance_effect(m, conformance) == [m EXCEPT !.conformance = conformance]
with_mod_date_effect(m, mod_date) == [m EXCEPT !.modification_date = mod_date]
with_title_effect(m, new_title) == [m EXCEPT !.document_title = new_title]

\* faulty variant: the identifier of the document itself is replaced
with_document_id_effect_doc(id, m, given) ==
    [document_id |-> given, metadata |-> [m EXCEPT !.xmp_document_id = Some(given)]]

\* with_document_id: sets metadata.xmp_metadata.document_id, nothing else
with_document_id_effect(id, m, given) ==
    [document_id |-> id, metadata |-> [m EXCEPT !.xmp_document_id = Some(given)]]

\* calendar fields of a timestamp: those of its local time
LocalHours(date) == date.utc + date.offset
DateDay(date) == LocalHours(date) \div 24
DateHour(date) == LocalHours(date) % 24

\* to_pdf_time_stamp_metadata: the date's own fields, then the fixed +00'00'
to_pdf_time_stamp_metadata(date) ==
    [day |-> DateDay(date), hour |-> DateHour(date), suffix |-> "+00'00'"]

\* PdfConformance::get_identifier_string
get_identifier_string(conformance) ==
    IF conformance = "X3_2002_PDF_1_3" THEN "PDF/X-3:2002" ELSE "PDF/X-1a:2001"

\* DocumentInfo::into_obj: the Info dictionary, from the metadata it is given
\* (Author, Creator, Producer, Subject, Identifier and Keywords have no setter
\* among the document operations and are left out)
DocumentInfo_into_obj(m) ==
    [Trapped |-> IF m.trapping THEN "True" ELSE "False",
     CreationDate |-> to_pdf_time_stamp_metadata(m.creation_date),
     ModDate |-> to_pdf_time_stamp_metadata(m.modification_date),
     GTS_PDFXVersion |-> get_identifier_string(m.conformance),
     Title |-> m.document_title]

\* PdfMetadata::into_obj: the XMP object, the Info dictionary and the ICC profile
PdfMetadata_into_obj(m) ==
    [xmp_metadata |-> [Type |-> "Metadata", document_id |-> m.xmp_document_id,
                       title |-> m.document_title,
                       document_version |-> m.document_version],
     document_info |-> DocumentInfo_into_obj(m),
     icc_profile |-> m.target_icc_profile]

\* ---------------------------------------------------------------- save

Reference(id) == [ref |-> id]

RECURSIVE Concat_reversed(_)
\* faulty variant: each stream's content is put in front of what was merged
Concat_reversed(streams) ==
    IF streams = <<>> THEN <<>> ELSE Concat_reversed(Tail(streams)) \o Head(streams)

RECURSIVE Concat(_)
\* Vec::append of every stream's content, in order
Concat(streams) ==
    IF streams = <<>> THEN <<>> ELSE Head(streams) \o Concat(Tail(streams))

\* PdfPage::collect_resources_and_streams: the page's resource dictionary and
\* one stream per layer, in layer order
collect_resources_and_streams(page, d) ==
    [resources_page |-> page.resources, layer_streams |-> page.layers, doc |-> d]

RECURSIVE SavePages(_, _, _, _)
\* save, the loop over doc.pages: per page an optional Resources object, the
\* merged content stream, then the page object; its reference joins Kids
SavePages(ps, d, pages_id, page_ids) ==
    IF ps = <<>> THEN [doc |-> d, page_ids |-> page_ids]
    ELSE LET page == Head(ps)
             box == <<0, 0, page.width_pt, page.heigth_pt>>
             got == collect_resources_and_streams(page, d)
             res == IF Len(got.resources_page) > 0
                    THEN add_object(got.doc, [Type |-> "Resources", entries |-> got.resources_page])
                    ELSE [doc |-> got.doc, id |-> 0]
             content == add_object(res.doc, [Type |-> "Stream", content |-> Concat(got.layer_streams)])
             p == [Type |-> "Page", Rotate |-> 0, MediaBox |-> box, TrimBox |-> box,
                   CropBox |-> box, Parent |-> Reference(pages_id),
                   Resources |-> IF Len(got.resources_page) > 0
                                 THEN Some(Reference(res.id)) ELSE None,
                   Contents |-> Reference(content.id)]
             added == add_object(content.doc, p)
         IN SavePages(Tail(ps), added.doc, pages_id, Append(page_ids, Reference(added.id)))

\* FontList into lopdf::Dictionary: one set(name, Reference(inner_obj)) per
\* entry, in the order the HashMap hands its entries out (`order`)
FontList_into(list, order) ==
    [i \in 1..Len(order) |-> <<order[i].name, Reference(list[order[i]].inner_obj)>>]

\* FontList::into_with_document, which save calls with the lopdf document: the
\* registry drained into the Font resource dictionary, each label mapped to
\* the reference of its allocated identity; the document is left as it is
FontList_into_with_document(list, order, d) ==
    [dict |-> FontList_into(list, order), doc |-> d]

\* save: the trailer's ID array
trailer_ID(id, m, instance_id) == <<id, instance_id>>

\* save, from try_unwrap to the trailer: the lopdf document handed to save_to.
\* `order` is the HashMap's iteration order, `instance_id` the identifier drawn
SaveDoc(ps, list, d, id, m, order, instance_id) ==
    LET pages_alloc == new_object_id(d)
        pages_id == pages_alloc.id
        objs == PdfMetadata_into_obj(m)
        xmp == add_object(pages_alloc.doc, objs.xmp_metadata)
        info == add_object(xmp.doc, objs.document_info)
        icc == IF objs.icc_profile # None
               THEN add_object(info.doc, objs.icc_profile[1])
               ELSE [doc |-> info.doc, id |-> 0]
        output_intents ==
            [S |-> "GTS_PDFX", Type |-> "OutputIntent",
             OutputConditionIdentifier |-> "FOGRA39",
             RegistryName |-> "http://www.color.org",
             Info |-> "Coated FOGRA39 (ISO 12647-2:2004)",
             DestinationOutputProfile |->
                 IF objs.icc_profile # None THEN Some(Reference(icc.id)) ELSE None]
        catalog == [Type |-> "Catalog", PageLayout |-> "OneColumn", PageMode |-> "Use0",
                    Pages |-> Reference(pages_id), Metadata |-> Reference(xmp.id),
                    OutputIntents |-> <<output_intents>>]
        looped == SavePages(ps, icc.doc, pages_id, <<>>)
        drained == FontList_into_with_document(list, order, looped.doc)
        fonts_dict == drained.dict
        pages_dict == [Type |-> "Pages", Count |-> Len(ps), Kids |-> looped.page_ids,
                       Resources |-> IF Len(fonts_dict) > 0
                                     THEN Some([Font |-> fonts_dict]) ELSE None]
        with_pages == [drained.doc EXCEPT !.objects = (pages_id :> pages_dict) @@ drained.doc.objects]
        cat == add_object(with_pages, catalog)
    IN [cat.doc EXCEPT !.trailer =
            Some([Root |-> Reference(cat.id), Info |-> Reference(info.id),
                  ID |-> trailer_ID(id, m, instance_id)])]

\* ---------------------------------------------------------------- font embedding

MaxGlyphs == 3           \* glyph indices (besides 0) a font face may use
MaxCodePoint == 65535    \* 0xffff, the end of the code point loop
NotdefWidth == 1000      \* width seeded for glyph 0
BlockSpan == 100         \* glyph_id > last_block_begin + 100 starts a block
HighByte == 256          \* glyph_id >> 8
U16 == 65536

RECURSIVE Ascending(_, _, _)
\* the elements of S, a set of integers of lo..hi, in increasing order
Ascending(S, lo, hi) ==
    IF S = {} THEN <<>>
    ELSE IF lo = hi THEN <<lo>>
    ELSE LET mid == (lo + hi) \div 2
         IN Ascending({x \in S : x <= mid}, lo, mid) \o
            Ascending({x \in S : x > mid}, mid + 1, hi)

\* the keys of a BTreeMap, or the code points of a range, in increasing
\* order: code points and glyph indices are 16-bit values
SetToSeq(S) == Ascending(S, 0, U16 - 1)

\* the code points and glyph indices the font faces are built from
Codes == {0, 65, 65534, 65535}
GlyphList == <<1, 2, 257, 358, 600>>
Glyphs == {GlyphList[i] : i \in 1..Min(MaxGlyphs, Len(GlyphList))}

\* a font face: its character map (0 is "no glyph"), the glyphs that fail
\* to load, the metrics of its glyphs and whether it has size metrics
SmallFaces ==
    {[chars |-> c, unloadable |-> u, wide |-> w, size_metrics |-> m] :
        c \in [Codes -> {0} \cup Glyphs],
        u \in {{}} \cup {{g} : g \in Glyphs},
        w \in BOOLEAN, m \in BOOLEAN}

\* faces with many glyphs: code points 1..n mapped to the glyph indices
\* s, 2s, .., n*s (contiguous for s = 1, with gaps otherwise)
RunLengths == {99, 100, 101, 300, 6399}
Strides == {1, 2, 7}
RunFaces ==
    {[chars |-> [c \in 1..n |-> s * c], unloadable |-> {}, wide |-> FALSE, size_metrics |-> TRUE] :
        n \in RunLengths, s \in Strides}

Faces == SmallFaces \cup RunFaces

DefaultFace ==
    [chars |-> [c \in Codes |-> 0], unloadable |-> {}, wide |-> FALSE, size_metrics |-> TRUE]

\* FreeType's face.get_char_index
get_char_index(f, unicode) == IF unicode \in DOMAIN f.chars THEN f.chars[unicode] ELSE 0

\* FreeType's face.load_glyph(..).is_ok()
load_glyph_ok(f, glyph_id) == glyph_id \notin f.unloadable

\* FreeType's glyph metrics, unscaled
glyph_metrics(f, glyph_id) ==
    IF f.wide THEN [width |-> 1200 + glyph_id, height |-> 700 + glyph_id]
    ELSE [width |-> 600, height |-> 700]

\* `w as u32` on a glyph width: the widths of glyph_metrics are not negative
\* and stay far below 2^31, where the cast keeps the value
AsU32(w) == w

RECURSIVE HexDigits(_)
\* the hexadecimal digits of n, most significant first
HexDigits(n) == IF n < 16 THEN <<n>> ELSE Append(HexDigits(n \div 16), n % 16)

RECURSIVE ZeroPad(_, _)
ZeroPad(digits, width) == IF Len(digits) >= width THEN digits ELSE ZeroPad(<<0>> \o digits, width)

\* format!("{:04x}", n)
Hex4(n) == ZeroPad(HexDigits(n), 4)

\* faulty variant: glyph index 0 is recorded like any other
glyph_step_unguarded(f, acc, unicode) ==
    LET glyph_id == get_char_index(f, unicode)
        m == glyph_metrics(f, glyph_id)
    IN IF load_glyph_ok(f, glyph_id)
       THEN [cmap |-> (glyph_id :> <<unicode, AsU32(m.width)>>) @@ acc.cmap,
             max_height |-> IF m.height > acc.max_height THEN m.height ELSE acc.max_height,
             total_width |-> acc.total_width + m.width]
       ELSE acc

\* faulty variant: the width of a glyph is added once, however many code
\* points resolve to it
glyph_step_once(f, acc, unicode) ==
    LET glyph_id == get_char_index(f, unicode)
        m == glyph_metrics(f, glyph_id)
    IN IF glyph_id # 0 /\ load_glyph_ok(f, glyph_id)
       THEN [cmap |-> (glyph_id :> <<unicode, AsU32(m.width)>>) @@ acc.cmap,
             max_height |-> IF m.height > acc.max_height THEN m.height ELSE acc.max_height,
             total_width |-> IF glyph_id \in DOMAIN acc.cmap THEN acc.total_width
                             ELSE acc.total_width + m.width]
       ELSE acc

\* into_obj_with_document, the body of the code point loop
glyph_step(f, acc, unicode) ==
    LET glyph_id == get_char_index(f, unicode)
        m == glyph_metrics(f, glyph_id)
    IN IF glyph_id # 0 /\ load_glyph_ok(f, glyph_id)
       THEN [cmap |-> (glyph_id :> <<unicode, AsU32(m.width)>>) @@ acc.cmap,
             max_height |-> IF m.height > acc.max_height THEN m.height ELSE acc.max_height,
             total_width |-> acc.total_width + m.width]
       ELSE acc

RECURSIVE glyph_loop(_, _, _)
\* the loop body applied to the code points in order; the left part is
\* evaluated in full before the right part starts
glyph_loop(f, acc, codes) ==
    IF codes = <<>> THEN acc
    ELSE IF Len(codes) = 1 THEN glyph_step(f, acc, codes[1])
    ELSE LET half == Len(codes) \div 2
             left == glyph_loop(f, acc, SubSeq(codes, 1, half))
         IN IF left.total_width = left.total_width
            THEN glyph_loop(f, left, SubSeq(codes, half + 1, Len(codes)))
            ELSE left

\* into_obj_with_document: `for unicode in 0x0000..0xffff`, starting from the
\* seeded map.  Code points outside the face's character map yield glyph 0 and
\* leave the accumulator as it is, so the loop visits those inside it
collect_glyphs(f) ==
    glyph_loop(f,
               [cmap |-> (0 :> <<0, NotdefWidth>>), max_height |-> 0, total_width |-> 0],
               SetToSeq({c \in DOMAIN f.chars : c >= 0 /\ c < MaxCodePoint}))

\* into_obj_with_document, the body of the loop over the glyph map
block_step(st, glyph_id, entry) ==
    LET first_bit == (glyph_id \div HighByte) % U16
        opens == first_bit # st.cur_first_bit \/ glyph_id > st.last_block_begin + BlockSpan
        line == [kind |-> "bfchar", glyph |-> Hex4(glyph_id), unicode |-> Hex4(entry[1]), block |-> 0]
    IN IF opens
       THEN [lines |-> st.lines \o
                       <<[kind |-> "endbfchar", glyph |-> <<>>, unicode |-> <<>>, block |-> 0],
                         [kind |-> "beginbfchar", glyph |-> <<>>, unicode |-> <<>>,
                          block |-> st.cur_block_id + 1],
                         line>>,
             widths |-> Append(st.widths, entry[2]),
             cur_block_id |-> st.cur_block_id + 1,
             cur_first_bit |-> first_bit,
             last_block_begin |-> glyph_id]
       ELSE [st EXCEPT !.lines = Append(st.lines, line),
                       !.widths = Append(st.widths, entry[2])]

RECURSIVE block_loop(_, _, _)
\* the loop body applied to the glyph indices in order; the left part is
\* evaluated in full before the right part starts
block_loop(st, cmap, glyph_ids) ==
    IF glyph_ids = <<>> THEN st
    ELSE IF Len(glyph_ids) = 1 THEN block_step(st, glyph_ids[1], cmap[glyph_ids[1]])
    ELSE LET half == Len(glyph_ids) \div 2
             left == block_loop(st, cmap, SubSeq(glyph_ids, 1, half))
         IN IF left.cur_block_id = left.cur_block_id
            THEN block_loop(left, cmap, SubSeq(glyph_ids, half + 1, Len(glyph_ids)))
            ELSE left

\* into_obj_with_document, the ToUnicode CMap and the widths: the template's
\* beginning, one line per glyph in increasing glyph index, the closing
\* endbfchar, the template's end
build_cmap(cmap) ==
    LET st == block_loop([lines |-> <<[kind |-> "template_beg", glyph |-> <<>>,
                                       unicode |-> <<>>, block |-> 0]>>,
                          widths |-> <<>>, cur_block_id |-> 0, cur_first_bit |-> 0,
                          last_block_begin |-> 0],
                         cmap, SetToSeq(DOMAIN cmap))
        n == Cardinality(DOMAIN cmap)
        closed == IF n % 256 # 0 \/ n % 100 # 0
                  THEN Append(st.lines, [kind |-> "endbfchar", glyph |-> <<>>,
                                         unicode |-> <<>>, block |-> 0])
                  ELSE st.lines
    IN [cid_to_unicode_map |-> Append(closed, [kind |-> "template_end", glyph |-> <<>>,
                                               unicode |-> <<>>, block |-> 0]),
        widths |-> st.widths]

\* Font::into_obj_with_document for a face with size metrics: the font
\* dictionary, and the document with the three objects added
into_obj_with_document(f, d) ==
    LET got == collect_glyphs(f)
        built == build_cmap(got.cmap)
        to_unicode == add_object(d, [Type |-> "Stream", content |-> built.cid_to_unicode_map])
        font_file == add_object(to_unicode.doc, [Type |-> "Stream", content |-> <<"font_bytes">>])
        descriptor == add_object(font_file.doc,
                          [Type |-> "FontDescriptor",
                           FontBBox |-> <<0, got.max_height, got.total_width, got.max_height>>,
                           FontFile3 |-> Reference(font_file.id)])
    IN [doc |-> descriptor.doc,
        font |-> [Type |-> "Font", Subtype |-> "Type0", Encoding |-> "Identity-H",
                  cmap |-> got.cmap,
                  cid_to_unicode_map |-> built.cid_to_unicode_map,
                  W |-> <<0, built.widths>>,
                  FontBBox |-> <<0, got.max_height, got.total_width, got.max_height>>,
                  FontDescriptor |-> Reference(descriptor.id),
                  ToUnicode |-> Reference(to_unicode.id)]]

\* ---------------------------------------------------------------- operations

\* a panic unwinds the caller: the handle and the document are dropped
Unwind(op, arg, status) ==
    /\ result' = Ret(op, arg, status, None)
    /\ handle' = "unwound"
    /\ doc_alive' = FALSE
    /\ borrow_flag' = 0
    /\ UNCHANGED <<doc_vars, rng, issued, page_ref, first_reg, target, twin, font_vars>>

\* PdfDocument::new: an empty document with a fresh identifier, then the
\* initial page is pushed; returns PdfPageIndex(0)
InitDoc(size, id, now) ==
    /\ handle = "held"
    /\ doc_alive = TRUE
    /\ borrow_flag = RunBorrows(new_borrows, 0).flag
    /\ pages = <<PdfPageNew(size, 0)>>
    /\ fonts = <<>>
    /\ inner_doc = [max_id |-> 0, objects |-> <<>>, trailer |-> None]
    /\ document_id = id
    /\ metadata = PdfMetadataNew("title0", now)
    /\ rng = <<id>>
    /\ issued = {[index |-> 0, page |-> PdfPageNew(size, 0)]}
    /\ page_ref = None
    /\ first_reg = <<>>
    /\ result = Ret("new", None, "Ok", Some(0))
    /\ target = None
    /\ twin = None

\* the builder functions that return Self
with_builder(op, arg, id, m) ==
    /\ handle = "held"
    /\ LET b == RunBorrows(with_borrows, borrow_flag)
       IN IF ~b.ok THEN Unwind(op, arg, "BorrowPanic")
          ELSE /\ metadata' = m
               /\ document_id' = id
               /\ borrow_flag' = b.flag
               /\ result' = Ret(op, arg, "Ok", None)
               /\ UNCHANGED <<handle, doc_alive, pages, fonts, inner_doc, rng, issued,
                              page_ref, first_reg, target, twin, font_vars>>

with_trapping(trapping) ==
    with_builder("with_trapping", None, document_id, with_trapping_effect(metadata, trapping))

with_document_id(id) ==
    LET e == with_document_id_effect(document_id, metadata, id)
    IN with_builder("with_document_id", Some(id), e.document_id, e.metadata)

with_document_version(version) ==
    with_builder("with_document_version", None, document_id,
                 with_document_version_effect(metadata, version))

with_conformance(conformance) ==
    with_builder("with_conformance", None, document_id,
                 with_conformance_effect(metadata, conformance))

with_mod_date(mod_date) ==
    with_builder("with_mod_date", None, document_id, with_mod_date_effect(metadata, mod_date))

\* with_title takes self and returns (): the handle is gone when it returns,
\* and with it the last strong owner of the document
with_title(new_title) ==
    /\ handle = "held"
    /\ LET b == RunBorrows(with_borrows, borrow_flag)
       IN IF ~b.ok THEN Unwind("with_title", Some(new_title), "BorrowPanic")
          ELSE /\ metadata' = with_title_effect(metadata, new_title)
               /\ borrow_flag' = b.flag
               /\ handle' = "moved"
               /\ doc_alive' = FALSE
               /\ result' = Ret("with_title", Some(new_title), "Ok", None)
               /\ UNCHANGED <<pages, fonts, inner_doc, document_id, rng, issued,
                              page_ref, first_reg, target, twin, font_vars>>

add_page(size) ==
    /\ handle = "held"
    /\ Len(pages) < MaxPages
    /\ LET b == RunBorrows(add_page_borrows, borrow_flag)
           e == add_page_effect(pages, size)
       IN IF ~b.ok THEN Unwind("add_page", None, "BorrowPanic")
          ELSE /\ pages' = e.pages
               /\ borrow_flag' = b.flag
               /\ issued' = issued \cup {[index |-> e.index, page |-> PdfPageNew(size, Len(pages))]}
               /\ result' = Ret("add_page", None, "Ok", Some(e.index))
               /\ UNCHANGED <<handle, doc_alive, fonts, inner_doc, document_id, metadata,
                              rng, page_ref, first_reg, target, twin, font_vars>>

add_font(font_stream) ==
    /\ handle = "held"
    /\ LET f == FontNew(font_stream)
       IN IF f.status = "Panic" THEN Unwind("add_font", Some(font_stream), "Panic")
          ELSE IF f.status = "Err"
          THEN /\ result' = Ret("add_font", Some(font_stream), "Err", None)
               /\ UNCHANGED <<handle, doc_alive, borrow_flag, doc_vars, rng, issued,
                              page_ref, first_reg, target, twin, font_vars>>
          ELSE LET e == add_font_effect(fonts, inner_doc, f.font[1])
                   b == RunBorrows(add_font_borrows(e.found), borrow_flag)
               IN IF ~b.ok THEN Unwind("add_font", Some(font_stream), "BorrowPanic")
                  ELSE /\ fonts' = e.fonts
                       /\ inner_doc' = e.inner_doc
                       /\ borrow_flag' = b.flag
                       /\ first_reg' = IF e.ret \in DOMAIN first_reg THEN first_reg
                                       ELSE (e.ret :> e.fonts[e.ret]) @@ first_reg
                       /\ result' = Ret("add_font", Some(font_stream), "Ok", Some(e.ret))
                       /\ UNCHANGED <<handle, doc_alive, pages, document_id, metadata, rng,
                                      issued, page_ref, target, twin, font_vars>>

\* get_page: pages.get(page.0).unwrap(), then a PdfPageReference holding a
\* weak pointer to the document
get_page(page) ==
    /\ handle = "held"
    /\ LET b == RunBorrows(get_page_borrows, borrow_flag)
       IN IF ~b.ok THEN Unwind("get_page", Some(page), "BorrowPanic")
          ELSE IF pages_get(pages, page) = None THEN Unwind("get_page", Some(page), "Panic")
          ELSE /\ page_ref' = Some(page)
               /\ borrow_flag' = b.flag
               /\ result' = Ret("get_page", Some(page), "Ok", Some(page))
               /\ UNCHANGED <<handle, doc_alive, doc_vars, rng, issued, first_reg,
                              target, twin, font_vars>>

get_font(font) ==
    /\ handle = "held"
    /\ LET b == RunBorrows(get_font_borrows, borrow_flag)
       IN IF ~b.ok THEN Unwind("get_font", Some(font), "BorrowPanic")
          ELSE /\ borrow_flag' = b.flag
               /\ result' = Ret("get_font", Some(font), "Ok", FontList_get_font(fonts, font))
               /\ UNCHANGED <<handle, doc_alive, doc_vars, rng, issued, page_ref,
                              first_reg, target, twin, font_vars>>

\* a use of a PdfPageReference: Weak::upgrade reaches the document only while
\* it has a strong owner
page_ref_access ==
    /\ handle # "unwound"
    /\ page_ref # None
    /\ result' = IF doc_alive
                 THEN Ret("page_ref_access", page_ref, "Ok", pages_get(pages, page_ref[1]))
                 ELSE Ret("page_ref_access", page_ref, "Gone", None)
    /\ UNCHANGED <<handle, doc_alive, borrow_flag, doc_vars, rng, issued, page_ref,
                   first_reg, target, twin, font_vars>>

\* save: takes self; try_unwrap succeeds because page references are weak.
\* The twin is a document in the same logical state, saved by the same code
\* with its own HashMap iteration order and its own instance identifier.
save ==
    /\ handle = "held"
    /\ \E order \in Orders(DOMAIN fonts), instance_id \in Ids :
         \E twin_order \in Orders(DOMAIN fonts), twin_instance_id \in Ids :
            /\ inner_doc' = SaveDoc(pages, fonts, inner_doc, document_id, metadata,
                                    order, instance_id)
            /\ target' = Some(inner_doc')
            /\ twin' = Some(SaveDoc(pages, fonts, inner_doc, document_id, metadata,
                                    twin_order, twin_instance_id))
            /\ rng' = Append(rng, instance_id)
    /\ handle' = "moved"
    /\ doc_alive' = FALSE
    /\ result' = Ret("save", None, "Ok", None)
    /\ UNCHANGED <<borrow_flag, pages, fonts, document_id, metadata, issued, page_ref,
                   first_reg, font_vars>>

\* identifiers are interchangeable: the one drawn by new is called DocumentId
DocumentId == "id_a"

Init ==
    /\ \E size \in PageSizes, now \in Instants : InitDoc(size, DocumentId, now)
    /\ face = DefaultFace
    /\ embedded = None

Next ==
    \/ \E t \in BOOLEAN : with_trapping(t)
    \/ \E id \in Ids : with_document_id(id)
    \/ \E v \in Versions : with_document_version(v)
    \/ \E c \in Conformances : with_conformance(c)
    \/ \E d \in TimeStamps : with_mod_date(d)
    \/ \E t \in Titles : with_title(t)
    \/ \E size \in PageSizes : add_page(size)
    \/ \E font_stream \in Streams : add_font(font_stream)
    \/ \E page \in 0..MaxPages : get_page(page)
    \/ \E n \in Names : get_font(IndirectFontRefNew(n))
    \/ page_ref_access
    \/ save

Spec == Init /\ [][Next]_vars

\* documents whose pages have layers with content and resources of their own,
\* as the page and layer references leave them before save
MaxLayers == 2
PageCounts == {1, 2}
LayerContents == {<<>>, <<1>>, <<2, 3>>}
PageResources == {<<>>, << <<"ExtGState", "GS0">> >>}
LayerSeqs == UNION {[1..n -> LayerContents] : n \in 1..MaxLayers}
PageShapes ==
    {[number |-> 0, width_pt |-> size[1], heigth_pt |-> size[2], layers |-> l, resources |-> r] :
        size \in PageSizes, l \in LayerSeqs, r \in PageResources}
DrawnPages ==
    UNION {{[i \in 1..n |-> [shape[i] EXCEPT !.number = i - 1]] : shape \in [1..n -> PageShapes]} :
            n \in PageCounts}

InitPages ==
    /\ handle = "held"
    /\ doc_alive = TRUE
    /\ borrow_flag = 0
    /\ pages \in DrawnPages
    /\ fonts = <<>>
    /\ inner_doc = [max_id |-> 0, objects |-> <<>>, trailer |-> None]
    /\ document_id = DocumentId
    /\ \E now \in Instants : metadata = PdfMetadataNew("title0", now)
    /\ rng = <<DocumentId>>
    /\ issued = {[index |-> i - 1, page |-> pages[i]] : i \in DOMAIN pages}
    /\ page_ref = None
    /\ first_reg = <<>>
    /\ result = Ret("add_page", None, "Ok", Some(Len(pages) - 1))
    /\ target = None
    /\ twin = None
    /\ face = DefaultFace
    /\ embedded = None

NextPages == save

\* save alone, over documents with layered pages
SpecPages == InitPages /\ [][NextPages]_vars

\* Font::into_obj_with_document on the face: size_metrics().expect(..) panics
\* for a face without size metrics
embed ==
    /\ embedded = None
    /\ result.op # "embed"
    /\ IF ~face.size_metrics
       THEN /\ result' = Ret("embed", None, "Panic", None)
            /\ UNCHANGED <<inner_doc, embedded>>
       ELSE LET r == into_obj_with_document(face, inner_doc)
            IN /\ embedded' = Some(r.font)
               /\ inner_doc' = r.doc
               /\ result' = Ret("embed", None, "Ok", None)
    /\ UNCHANGED <<handle, doc_alive, borrow_flag, pages, fonts, document_id, metadata,
                   rng, issued, page_ref, first_reg, target, twin, face>>

InitFont ==
    /\ \E size \in PageSizes, now \in Instants : InitDoc(size, DocumentId, now)
    /\ face \in Faces
    /\ embedded = None

NextFont == embed

\* the font embedding pipeline alone, over every face of Faces
SpecFont == InitFont /\ [][NextFont]_vars

\* ---------------------------------------------------------------- properties

\* the Info dictionary of a saved document
InfoOf(d) == d.objects[d.trailer[1].Info.ref]

\* a saved document without the second element of its trailer ID
EraseInstance(d) == [d EXCEPT !.trailer = Some([d.trailer[1] EXCEPT !.ID = <<d.trailer[1].ID[1]>>])]

\* C1: the registry holds one entry per registered PostScript name, and each
\* is the DirectFontRef (identity and bytes) stored by the first add_font of
\* that name; before save one identity has been allocated per entry; a
\* successful add_font returns the handle of the stream's PostScript name.
C1_RegistryDedup ==
    /\ DOMAIN fonts = DOMAIN first_reg
    /\ \A r \in DOMAIN fonts : fonts[r] = first_reg[r]
    /\ \A r1, r2 \in DOMAIN fonts : fonts[r1].inner_obj = fonts[r2].inner_obj => r1 = r2
    /\ target = None => inner_doc.max_id = Cardinality(DOMAIN fonts)
    /\ (result.op = "add_font" /\ result.status = "Ok") =>
           /\ result.ret = Some(IndirectFontRefNew(result.arg[1].bytes.name))
           /\ result.ret[1] \in DOMAIN fonts

\* C1 witness: add_font was just called with bytes that differ from those
\* registered under the same name
C1_Witness ==
    /\ result.op = "add_font"
    /\ result.status = "Ok"
    /\ fonts[result.ret[1]].data.font_bytes # result.arg[1].bytes
    /\ Cardinality(DOMAIN fonts) = 2

\* C2: an add_font that fails at the decode step returns an error value and
\* leaves the document usable, with the registry it had.
C2_DecodeFailureIsError ==
    (result.op = "add_font" /\ FontNew(result.arg[1]).status # "Ok") =>
        /\ result.status = "Err"
        /\ handle = "held"
        /\ doc_alive
        /\ fonts = first_reg

\* C3: the document is consumed by save and by nothing else, and once save
\* has run nothing reaches the document.
C3_ConsumedOnlyBySave ==
    /\ (handle = "moved" \/ (handle = "held" /\ ~doc_alive)) => target # None
    /\ target # None => (handle = "moved" /\ ~doc_alive)

\* C4: no operation meets an outstanding borrow: no borrow or borrow_mut
\* panics, and every borrow an operation takes is released when it returns.
C4_NoBorrowConflict ==
    /\ result.status # "BorrowPanic"
    /\ borrow_flag = 0

\* C4 witness: both insertions of add_font (shared borrow, then exclusive
\* borrow) and a get_page have run, and get_font comes last
C4_Witness ==
    /\ Cardinality(DOMAIN fonts) = 2
    /\ page_ref # None
    /\ result.op = "get_font"
    /\ result.status = "Ok"

\* C5: every page index handed out (0 by new, then one per add_page) denotes
\* the page it was handed out for; the indices are 0..len-1; add_page
\* returns the position of the page it pushed.
C5_PageIndicesStable ==
    /\ \A h \in issued : pages_get(pages, h.index) = Some(h.page)
    /\ {h.index : h \in issued} = 0..(Len(pages) - 1)
    /\ Cardinality(issued) = Len(pages)
    /\ result.op = "new" => result.ret = Some(0)
    /\ (result.op = "add_page" /\ result.status = "Ok") =>
           /\ result.ret = Some(Len(pages) - 1)
           /\ pages[Len(pages)].number = Len(pages) - 1

\* C5 witness: add_page has run twice, so an index returned by add_page has
\* outlived a later add_page
C5_Witness ==
    /\ result.op = "add_page"
    /\ Len(pages) = 3
    /\ result.ret = Some(2)

\* C6: the document written by save and the one written by saving a document
\* in the same logical state are equal once the second element of the
\* trailer ID is set aside.
C6_SavesDifferOnlyInInstanceId ==
    target # None => EraseInstance(target[1]) = EraseInstance(twin[1])

\* C7: the document identifier is the one drawn at creation, whatever was
\* called since; save writes it as the first element of the trailer ID, and
\* the identifier drawn during save as the second.
C7_TrailerId ==
    /\ document_id = rng[1]
    /\ target = None => Len(rng) = 1
    /\ target # None =>
           /\ Len(rng) = 2
           /\ target[1].trailer[1].ID = <<rng[1], rng[2]>>

\* C7 witness: a document saved after with_document_id was given another
\* identifier than the document's
C7_Witness ==
    /\ target # None
    /\ metadata.xmp_document_id # None
    /\ metadata.xmp_document_id # Some(target[1].trailer[1].ID[1])
    /\ metadata.trapping

\* C8: after with_title(t) the document can still be saved, and the Info
\* dictionary built from the metadata carries t as its Title.
C8_TitleThenSave ==
    (result.op = "with_title" /\ result.status = "Ok") =>
        /\ handle = "held"
        /\ doc_alive
        /\ DocumentInfo_into_obj(metadata).Title = result.arg[1]

\* C9: the date and time fields of CreationDate and ModDate in the saved Info
\* dictionary are those of the instant in UTC.
C9_DatesAreUtc ==
    target # None =>
        /\ InfoOf(target[1]).ModDate.day = metadata.modification_date.utc \div 24
        /\ InfoOf(target[1]).ModDate.hour = metadata.modification_date.utc % 24
        /\ InfoOf(target[1]).CreationDate.day = metadata.creation_date.utc \div 24
        /\ InfoOf(target[1]).CreationDate.hour = metadata.creation_date.utc % 24

\* the bfchar lines of a CMap, in order
BfcharLines(lines) == SelectSeq(lines, LAMBDA l : l.kind = "bfchar")

\* C10: whatever the face, the glyph map of an embedded font has glyph 0 ->
\* (Unicode 0, width 1000), the first bfchar line of the CMap is
\* <0000> <0000> and the first width of W is 1000.
C10_NotdefSeeded ==
    embedded # None =>
        LET e == embedded[1]
        IN /\ e.cmap[0] = <<0, NotdefWidth>>
           /\ BfcharLines(e.cid_to_unicode_map)[1].glyph = <<0, 0, 0, 0>>
           /\ BfcharLines(e.cid_to_unicode_map)[1].unicode = <<0, 0, 0, 0>>
           /\ e.W[1] = 0
           /\ e.W[2][1] = 1000

\* C10 witness: an embedded face in which one code point has no glyph (glyph
\* index 0), code point 0 has a glyph and another glyph is recorded too
C10_Witness ==
    /\ embedded # None
    /\ face.chars[65] = 0
    /\ face.chars[0] # 0
    /\ Cardinality(DOMAIN embedded[1].cmap) = 3

\* the positions of the lines of one kind
LinesOfKind(lines, kind) == {i \in DOMAIN lines : lines[i].kind = kind}

\* beginbfchar and endbfchar alternate, starting with a beginbfchar and ending
\* with an endbfchar, and every bfchar line lies between a beginbfchar and the
\* endbfchar that follows it.  `opens` tells whether the beginning of the
\* template is read as opening the first block
WellBlocked(lines, opens) ==
    LET begins == LinesOfKind(lines, "beginbfchar") \cup
                  (IF opens THEN LinesOfKind(lines, "template_beg") ELSE {})
        ends == LinesOfKind(lines, "endbfchar")
        d == SetToSeq(begins \cup ends)
    IN /\ Len(d) % 2 = 0
       /\ \A k \in DOMAIN d : (d[k] \in begins) <=> (k % 2 = 1)
       /\ \A i \in LinesOfKind(lines, "bfchar") :
            \E k \in DOMAIN d : k % 2 = 1 /\ k < Len(d) /\ d[k] < i /\ i < d[k + 1]

\* one step of counting boundaries: the high byte changed, or the glyph index
\* is more than 100 above the start of the block
boundary_step(st, glyph_id) ==
    IF glyph_id \div HighByte # st.high \/ glyph_id > st.start + BlockSpan
    THEN [high |-> glyph_id \div HighByte, start |-> glyph_id, crossed |-> st.crossed + 1]
    ELSE st

RECURSIVE boundary_loop(_, _)
boundary_loop(st, glyph_ids) ==
    IF glyph_ids = <<>> THEN st
    ELSE IF Len(glyph_ids) = 1 THEN boundary_step(st, glyph_ids[1])
    ELSE LET half == Len(glyph_ids) \div 2
             left == boundary_loop(st, SubSeq(glyph_ids, 1, half))
         IN IF left.crossed = left.crossed
            THEN boundary_loop(left, SubSeq(glyph_ids, half + 1, Len(glyph_ids)))
            ELSE left

\* the number of boundaries crossed while iterating the glyph indices in
\* increasing order, starting in block 0 at glyph 0
Boundaries(glyph_ids) == boundary_loop([high |-> 0, start |-> 0, crossed |-> 0], glyph_ids).crossed

\* C11: in the ToUnicode CMap of an embedded font, beginbfchar and endbfchar
\* alternate and are balanced, the last block included, every bfchar line lies
\* inside exactly one block (whether or not the template's beginning is read as
\* opening the first block), and the number of blocks the loop opens equals the
\* number of boundaries crossed in increasing glyph index order
C11_BlocksWellFormed ==
    embedded # None =>
        LET lines == embedded[1].cid_to_unicode_map
        IN /\ \E opens \in BOOLEAN : WellBlocked(lines, opens)
           /\ Cardinality(LinesOfKind(lines, "beginbfchar")) =
                Boundaries(SetToSeq(DOMAIN embedded[1].cmap))

\* the bfchar lines of each block: those between one block opening (the
\* template's beginning or a beginbfchar) and the next
Blocks(lines) ==
    LET d == SetToSeq(LinesOfKind(lines, "template_beg") \cup LinesOfKind(lines, "beginbfchar"))
        bf == LinesOfKind(lines, "bfchar")
    IN {{i \in bf : d[k] < i /\ (k < Len(d) => i < d[k + 1])} : k \in DOMAIN d}

\* C12: every bfchar block of the ToUnicode CMap of an embedded font holds at
\* most 100 entries, and the glyph indices of one block share their high byte
C12_BlockLimits ==
    embedded # None =>
        LET lines == embedded[1].cid_to_unicode_map
        IN \A b \in Blocks(lines) :
            /\ Cardinality(b) <= BlockSpan
            /\ \A i, j \in b : SubSeq(lines[i].glyph, 1, 2) = SubSeq(lines[j].glyph, 1, 2)

\* C14: the glyph that code point 0xFFFF resolves to is recorded, from that
\* code point, in the glyph mapping, the W list and the CMap of the embedded font
C14_LastCodePointAsked ==
    LET g == get_char_index(face, MaxCodePoint)
    IN (embedded # None /\ g # 0 /\ load_glyph_ok(face, g)) =>
        /\ g \in DOMAIN embedded[1].cmap
        /\ embedded[1].cmap[g][1] = MaxCodePoint
        /\ Len(embedded[1].W[2]) = Cardinality(DOMAIN embedded[1].cmap)
        /\ \E i \in BfcharLines(embedded[1].cid_to_unicode_map) :
             /\ embedded[1].cid_to_unicode_map[i].glyph = Hex4(g)
             /\ embedded[1].cid_to_unicode_map[i].unicode = Hex4(MaxCodePoint)

\* the code points the loop visits that resolve to a glyph that loads
ResolvedCodes(f) ==
    {c \in DOMAIN f.chars :
        c >= 0 /\ c < MaxCodePoint /\ f.chars[c] # 0 /\ load_glyph_ok(f, f.chars[c])}

RECURSIVE SumRange(_, _, _)
\* s[lo] + .. + s[hi]
SumRange(s, lo, hi) ==
    IF lo > hi THEN 0
    ELSE IF lo = hi THEN s[lo]
    ELSE LET mid == (lo + hi) \div 2
         IN SumRange(s, lo, mid) + SumRange(s, mid + 1, hi)

Sum(s) == SumRange(s, 1, Len(s))

\* the widths recorded in a glyph mapping, in increasing glyph index order
RecordedWidths(cmap) ==
    LET ids == SetToSeq(DOMAIN cmap) IN [i \in 1..Len(ids) |-> cmap[ids[i]][2]]

\* two of the visited code points resolve to the same glyph
SharedGlyph(f) == Cardinality({f.chars[c] : c \in ResolvedCodes(f)}) # Cardinality(ResolvedCodes(f))

Resolves(d, r) == r.ref \in DOMAIN d.objects

\* the content stream attached to the i-th page of the saved document d
PageContent(d, i) ==
    LET tree == d.objects[d.objects[d.trailer[1].Root.ref].Pages.ref]
    IN d.objects[d.objects[tree.Kids[i].ref].Contents.ref].content

\* s is the content of the layers one after the other, and nothing else
IsConcatenation(s, layers) ==
    LET lens == [j \in 1..Len(layers) |-> Len(layers[j])]
    IN /\ Len(s) = Sum(lens)
       /\ \A j \in 1..Len(layers) : \A k \in 1..Len(layers[j]) :
            s[SumRange(lens, 1, j - 1) + k] = layers[j][k]

C15_ReferencesResolve ==
    target # None =>
        LET d == target[1]
            t == d.trailer[1]
            catalog == d.objects[t.Root.ref]
            tree == d.objects[catalog.Pages.ref]
        IN /\ Resolves(d, t.Root) /\ Resolves(d, t.Info)
           /\ Resolves(d, catalog.Pages) /\ Resolves(d, catalog.Metadata)
           /\ tree.Count = Len(pages) /\ Len(tree.Kids) = Len(pages)
           /\ \A i \in DOMAIN tree.Kids :
                /\ Resolves(d, tree.Kids[i])
                /\ d.objects[tree.Kids[i].ref].Type = "Page"
                /\ d.objects[tree.Kids[i].ref].Parent = catalog.Pages
                /\ Resolves(d, d.objects[tree.Kids[i].ref].Contents)
                /\ PageContent(d, i) = Concat(pages[i].layers)
                /\ (pages[i].resources # <<>>) <=> (d.objects[tree.Kids[i].ref].Resources # None)
                /\ d.objects[tree.Kids[i].ref].Resources # None =>
                        Resolves(d, d.objects[tree.Kids[i].ref].Resources[1])
                /\ \A j \in DOMAIN tree.Kids : i < j => tree.Kids[i].ref < tree.Kids[j].ref
           /\ tree.Resources # None =>
                \A k \in DOMAIN tree.Resources[1].Font : Resolves(d, tree.Resources[1].Font[k][2])

====
